---- MODULE Spec2Model ----
(***************************************************************************)
(* Model of Examples/Image/Detection/FasterRCNN/hierarchical_evaluation.py *)
(*                                                                         *)
(* Python lists and numpy arrays are sequences; a Python index i is the    *)
(* position i + 1 of the sequence (operator At).  Real numbers that the    *)
(* code only copies and compares (box coordinates, scores of the           *)
(* assembly functions) are integers; the coordinate algebra and the mean   *)
(* AP use exact rationals <<numerator, denominator>>.                      *)
(***************************************************************************)
EXTENDS Integers, Sequences, FiniteSets, TLC

VARIABLES
    HCH,            \* the global hierarchy helper: its label -> train vector table
    gtbs,           \* argument of prepare_ground_truth_boxes
    gt_pc,          \* "idle" before the call, "done" after it
    gt_status,      \* "returned", "AssertionError" or "ValueError"
    all_gt_infos,   \* the value prepare_ground_truth_boxes returned
    outputs,        \* argument of prepare_predictions
    roiss,          \* argument of prepare_predictions
    num_classes,    \* argument of prepare_predictions
    pred_pc,        \* "idle" before the call, "done" after it
    pred_status,    \* "returned", "AssertionError" or "ValueError"
    all_boxes,      \* the value prepare_predictions returned
    aps,            \* what evaluate_detections returned to eval_fast_rcnn_mAP
    ap_list,        \* the list eval_fast_rcnn_mAP averages
    mean_ap,        \* the printed mean AP
    ap_pc,          \* "idle" before the reporting loop, "done" after it
    coords,         \* the coordinate array handed from one helper to the next
    orig_coords,    \* the array the coordinate pipeline started from
    img_dims,       \* (width, height) of the image the coordinates are from
    output_scale,   \* the module global add_rois_to_img divides by
    coord_pc,       \* the position in the coordinate pipeline
    coord_status    \* "ok", "NameError" or "ValueError"

vars == <<HCH, gtbs, gt_pc, gt_status, all_gt_infos,
          outputs, roiss, num_classes, pred_pc, pred_status, all_boxes,
          aps, ap_list, mean_ap, ap_pc,
          coords, orig_coords, img_dims, output_scale, coord_pc, coord_status>>

gtVars == <<HCH, gtbs, gt_pc, gt_status, all_gt_infos>>
predVars == <<outputs, roiss, num_classes, pred_pc, pred_status, all_boxes>>
apVars == <<aps, ap_list, mean_ap, ap_pc>>
coordVars == <<coords, orig_coords, img_dims, output_scale, coord_pc, coord_status>>

(***************************************************************************)
(* Bounds of the model.                                                    *)
(***************************************************************************)
\* test images handed to one call
MaxImages == 2
\* ground-truth boxes (or regions) of the whole test set handed to one call
MaxBoxes == 2
\* per-class AP values are drawn from 0/MaxAP .. MaxAP/MaxAP
MaxAP == 10
\* corner coordinates are drawn from 0/CoordDen .. MaxCoord/CoordDen
MaxCoord == 2

(***************************************************************************)
(* Generic helpers for Python / numpy values.                              *)
(***************************************************************************)
None == "None"
\* float("nan"), as the rational 0/0
NaN == <<0, 0>>

\* s[i] of Python
At(s, i) == s[i + 1]

\* range(lo, hi) of Python as a sequence
Range(lo, hi) == [k \in 1..(IF hi > lo THEN hi - lo ELSE 0) |-> lo + k - 1]

\* [x] * n
Repeat(x, n) == [k \in 1..n |-> x]

\* np.concatenate(list_of_arrays, axis=0): the rows of all arrays, in order
RECURSIVE ConcatRows(_)
ConcatRows(arrays) ==
    IF Len(arrays) = 0 THEN <<>>
    ELSE Head(arrays) \o ConcatRows(Tail(arrays))

\* a[np.where(a[:, -1] == value)]: the rows whose last column is value, in order
RowsWithLast(a, value) == SelectSeq(a, LAMBDA row : row[Len(row)] = value)

\* row[:-1]
DropLast(row) == SubSeq(row, 1, Len(row) - 1)

RECURSIVE SumSeq(_)
SumSeq(s) == IF Len(s) = 0 THEN 0 ELSE Head(s) + SumSeq(Tail(s))

\* all sequences over S whose length is at most n
SeqsUpTo(S, n) == UNION {[1..k -> S] : k \in 0..n}

(***************************************************************************)
(* The hierarchy helper HCH (utils/hierarchical_classification), for a     *)
(* tree  root -> {__background__, fruit},  fruit -> {apple}.  A raw vector *)
(* has one entry per tree node and one background entry per inner node;   *)
(* the reduced vector has one entry per mapped class.                      *)
(***************************************************************************)
\* HCH.output_mapper.get_all_classes(): mapped classes, index 0 is background
classes == <<"__background__", "fruit", "apple">>

NC == Len(classes)

\* HCH.cls_maps[0]: the classes of the data set, by original label
cls_map_0 == <<"__background__", "apple", "fruit">>

\* HCH.cls_maps[0].getClass(label)
getClass(label) == At(cls_map_0, label)

\* the original labels a ground-truth box can carry (0 marks a padded box)
Labels == 1..(Len(cls_map_0) - 1)

\* raw entries: __background__, fruit, fruit's own background, apple
RawLen == NC + 1

\* the raw position (Python index) of each mapped class
RawIndexOf == <<0, 1, 3>>

\* the raw position of the parent of each raw entry, -1 for the children of the root
RawParent == <<-1, -1, 1, 1>>

\* HCH.get_vectors_for_label_nr(label)[0]
get_vectors_for_label_nr(label) == HCH[label]

\* HCH.output_mapper.get_prediciton_vector(vector): drops the lower backgrounds
get_prediciton_vector(vector) == [k \in 1..NC |-> At(vector, RawIndexOf[k])]

Min(a, b) == IF a <= b THEN a ELSE b

\* HCH.top_down_eval(vector): an entry is capped by the decoded entry of its parent
RECURSIVE top_down_entry(_, _)
top_down_entry(vector, i) ==
    IF At(RawParent, i) < 0 THEN At(vector, i)
    ELSE Min(At(vector, i), top_down_entry(vector, At(RawParent, i)))

top_down_eval(vector) == [k \in 1..Len(vector) |-> top_down_entry(vector, k - 1)]

\* the train vectors a hierarchy can hold: 0/1 entries, background 0
TrainVectors == {v \in [1..RawLen -> {0, 1}] : v[1] = 0}

\* the train vectors of the intact hierarchy: a class activates itself and its ancestors
SoundHCH == <<(<<0, 1, 0, 1>>), (<<0, 1, 0, 0>>)>>

(***************************************************************************)
(* prepare_ground_truth_boxes                                              *)
(***************************************************************************)
\* ActiveLabels without the check of line 58: every position counts as active
ActiveLabelsUnchecked(reduced_vector) == Range(1, Len(reduced_vector))

\* lines 57-58: the vector positions 1 .. len - 1 with a non-zero entry, ascending
ActiveLabels(reduced_vector) ==
    SelectSeq(Range(1, Len(reduced_vector)), LAMBDA i : At(reduced_vector, i) # 0)

\* lines 64-65: the derived box, coordinates followed by the new label
LBox(box_coords, vector_i) == <<box_coords \o <<vector_i>>>>

\* lines 52-66: the list of derived boxes one ground-truth box appends
DerivedBoxes(gtb) ==
    LET label == gtb[Len(gtb)]
        reduced_vector == get_prediciton_vector(get_vectors_for_label_nr(label))
        active == ActiveLabels(reduced_vector)
    IN  [k \in 1..Len(active) |-> LBox(SubSeq(gtb, 1, 4), active[k])]

\* lines 56-68: original_cls_name when the assertion is reached
OriginalClsNameLeft(gtb) ==
    LET label == gtb[Len(gtb)]
        reduced_vector == get_prediciton_vector(get_vectors_for_label_nr(label))
        active == ActiveLabels(reduced_vector)
    IN  IF \E k \in 1..Len(active) : At(classes, active[k]) = getClass(label)
        THEN None
        ELSE getClass(label)

\* lines 72-77: the record of one class for one image
GtInfo(all_gt_boxes, cls_index) ==
    LET cls_gt_boxes == RowsWithLast(all_gt_boxes, cls_index)
    IN  [bbox |-> cls_gt_boxes,
         difficult |-> Repeat(FALSE, Len(cls_gt_boxes)),
         det |-> Repeat(FALSE, Len(cls_gt_boxes))]

\* lines 46-77: one iteration of the loop over the images
GtImage(image_gtbs) ==
    LET lists == [k \in 1..Len(image_gtbs) |-> DerivedBoxes(image_gtbs[k])]
        all_gt_boxes == ConcatRows(lists)
    IN  IF \E k \in 1..Len(image_gtbs) : OriginalClsNameLeft(image_gtbs[k]) # None
        THEN [status |-> "AssertionError", infos |-> <<>>]
        ELSE IF Len(all_gt_boxes) = 0
        THEN [status |-> "ValueError", infos |-> <<>>]
        ELSE [status |-> "returned",
              infos |-> [k \in 1..NC |->
                           IF k = 1 THEN None ELSE GtInfo(ConcatRows(all_gt_boxes), k - 1)]]

\* the first image (position) whose iteration raises, 0 if none does
FirstRaising(results) ==
    IF \E k \in 1..Len(results) : results[k].status # "returned"
    THEN CHOOSE k \in 1..Len(results) :
            /\ results[k].status # "returned"
            /\ \A j \in 1..(k - 1) : results[j].status = "returned"
    ELSE 0

\* lines 42-79: the whole call
prepare_ground_truth_boxes(gtbs_arg) ==
    LET results == [k \in 1..Len(gtbs_arg) |-> GtImage(gtbs_arg[k])]
        bad == FirstRaising(results)
    IN  IF bad # 0
        THEN [status |-> results[bad].status, value |-> None]
        ELSE [status |-> "returned",
              value |-> [key \in {classes[k] : k \in 1..NC} |->
                           IF key = classes[1] THEN <<>>
                           ELSE LET c == CHOOSE k \in 2..NC : classes[k] = key
                                IN  [i \in 1..Len(gtbs_arg) |-> results[i].infos[c]]]]

(***************************************************************************)
(* prepare_predictions                                                     *)
(***************************************************************************)
\* the largest integer n such that every integer of magnitude up to n is a float32
Float32Exact == 16777216

\* the distance between neighbouring float32 values at magnitude a: 1 below 2^24,
\* doubling with every further power of two
RECURSIVE Float32Spacing(_)
Float32Spacing(a) == IF a < Float32Exact THEN 1 ELSE 2 * Float32Spacing(a \div 2)

\* a magnitude rounded to the nearest float32, ties to the even mantissa
Float32Round(a) ==
    LET s == Float32Spacing(a)
        q == a \div s
        r == a % s
    IN  IF 2 * r < s THEN q * s
        ELSE IF 2 * r > s THEN (q + 1) * s
        ELSE IF q % 2 = 0 THEN q * s
        ELSE (q + 1) * s

\* astype(np.float32) of one value
AsFloat32(x) == IF x < 0 THEN -Float32Round(-x) ELSE Float32Round(x)

\* line 112-113: one prediction, coords + score + label, as a 1-row array
Prediction(roi, score, label_i) == <<roi \o <<score, label_i>>>>

\* RoiPredictions without the check of line 111: zero scores are emitted too
RoiPredictionsUnchecked(reduced_p_vector, roi, n) ==
    [k \in 1..n |-> Prediction(roi, At(reduced_p_vector, k - 1), k - 1)]

\* lines 110-114: the predictions one region appends, for label_i in range(n)
RoiPredictions(reduced_p_vector, roi, n) ==
    LET kept == SelectSeq(Range(0, n), LAMBDA label_i : At(reduced_p_vector, label_i) # 0)
    IN  [k \in 1..Len(kept) |-> Prediction(roi, At(reduced_p_vector, kept[k]), kept[k])]

\* lines 106-107: the decoded and reduced vector of one region
ReducedPVector(pred_vector) == get_prediciton_vector(top_down_eval(pred_vector))

\* lines 118-120: the array of one class for one image
ClassBoxes(preds_for_img, cls_j) ==
    LET coords_score_label_for_cls == RowsWithLast(preds_for_img, cls_j)
    IN  [k \in 1..Len(coords_score_label_for_cls) |->
           LET row == DropLast(coords_score_label_for_cls[k])
           IN  [j \in 1..Len(row) |-> AsFloat32(row[j])]]

\* lines 95-120: one iteration of the loop over the images
PredImage(output, rois, n) ==
    LET lists == [k \in 1..Len(output) |->
                    RoiPredictions(ReducedPVector(output[k]), rois[k], n)]
        preds_for_img == ConcatRows(lists)
    IN  IF \E k \in 1..Len(output) : Len(ReducedPVector(output[k])) # n
        THEN [status |-> "AssertionError", boxes |-> <<>>]
        ELSE IF Len(preds_for_img) = 0
        THEN [status |-> "ValueError", boxes |-> <<>>]
        ELSE [status |-> "returned",
              boxes |-> [k \in 1..n |->
                           IF k = 1 THEN <<>>
                           ELSE ClassBoxes(ConcatRows(preds_for_img), k - 1)]]

\* lines 90-122: the whole call
prepare_predictions(outputs_arg, roiss_arg, n) ==
    LET results == [k \in 1..Len(outputs_arg) |-> PredImage(outputs_arg[k], roiss_arg[k], n)]
        bad == FirstRaising(results)
    IN  IF bad # 0
        THEN [status |-> results[bad].status, value |-> None]
        ELSE [status |-> "returned",
              value |-> [c \in 1..n |->
                           [i \in 1..Len(outputs_arg) |-> results[i].boxes[c]]]]

(***************************************************************************)
(* Exact arithmetic on rationals <<n, d>>, d > 0, in lowest terms: the     *)
(* real-number value of numpy's float arithmetic.                          *)
(***************************************************************************)
Abs(x) == IF x < 0 THEN -x ELSE x

RECURSIVE GCD(_, _)
GCD(a, b) == IF b = 0 THEN a ELSE GCD(b, a % b)

Rat(n, d) ==
    LET g == GCD(Abs(n), Abs(d))
        sgn == IF d < 0 THEN -1 ELSE 1
    IN  <<sgn * (n \div g), sgn * (d \div g)>>

RatAdd(p, q) == Rat(p[1] * q[2] + q[1] * p[2], p[2] * q[2])
RatSub(p, q) == Rat(p[1] * q[2] - q[1] * p[2], p[2] * q[2])
RatMul(p, q) == Rat(p[1] * q[1], p[2] * q[2])
RatDiv(p, q) == Rat(p[1] * q[2], p[2] * q[1])
RatAbs(p) == <<Abs(p[1]), p[2]>>
RatInt(k) == <<k, 1>>

RECURSIVE RatSum(_)
RatSum(s) == IF Len(s) = 0 THEN RatInt(0) ELSE RatAdd(Head(s), RatSum(Tail(s)))

(***************************************************************************)
(* eval_fast_rcnn_mAP, from the return of evaluate_detections on           *)
(***************************************************************************)
\* lines 207-210: the APs of the classes other than "__background__", in class order
ApList(aps_arg) ==
    LET kept == SelectSeq(classes, LAMBDA class_name : class_name # "__background__")
    IN  [k \in 1..Len(kept) |-> aps_arg[kept[k]]]

\* np.mean(list): NaN as soon as one value is NaN
NpMean(list) ==
    IF \E k \in 1..Len(list) : list[k] = NaN THEN NaN
    ELSE IF Len(list) = 0 THEN NaN
    ELSE RatDiv(RatSum(list), RatInt(Len(list)))

\* NpNanMean with np.mean in the place of np.nanmean
NpNanMeanPlain(list) == NpMean(list)

\* np.nanmean(list): the mean of the values that are not NaN, NaN if there is none
NpNanMean(list) == NpMean(SelectSeq(list, LAMBDA v : v # NaN))

\* the AP values evaluate_detections can return for a class
APValues == {Rat(k, MaxAP) : k \in 0..MaxAP} \cup {NaN}

(***************************************************************************)
(* Coordinate helpers                                                      *)
(***************************************************************************)
\* lines 359-368, one row
XywhRow(p) ==
    <<RatDiv(RatAdd(p[1], p[3]), RatInt(2)),
      RatDiv(RatAdd(p[2], p[4]), RatInt(2)),
      RatAbs(RatSub(p[3], p[1])),
      RatAbs(RatSub(p[4], p[2]))>> \o SubSeq(p, 5, Len(p))

\* lines 359-368
points_to_xywh(points) == [k \in 1..Len(points) |-> XywhRow(points[k])]

\* CornerRow without the halving of line 139
CornerRowFullExtent(c) ==
    <<RatSub(c[1], c[3]), RatSub(c[2], c[4]), RatAdd(c[1], c[3]), RatAdd(c[2], c[4])>>

\* lines 138-140, one row of four columns: centre form to corner form
CornerRow(c) ==
    <<RatSub(c[1], RatDiv(c[3], RatInt(2))),
      RatSub(c[2], RatDiv(c[4], RatInt(2))),
      RatAdd(c[1], RatDiv(c[3], RatInt(2))),
      RatAdd(c[2], RatDiv(c[4], RatInt(2)))>>

\* lines 143-144, one row: absolute to relative
RelativeRow(c, dims) ==
    <<RatDiv(c[1], RatInt(dims[1])), RatDiv(c[2], RatInt(dims[2])),
      RatDiv(c[3], RatInt(dims[1])), RatDiv(c[4], RatInt(dims[2]))>>

\* lines 150-151 and 153-154: x * ratio + (1 - ratio) / 2
Pad(x, ratio) ==
    RatAdd(RatMul(x, ratio), RatDiv(RatSub(RatInt(1), ratio), RatInt(2)))

\* lines 148-154, one row: the padding of the shorter axis
PaddedRow(c, dims) ==
    IF dims[1] > dims[2]
    THEN <<c[1], Pad(c[2], Rat(dims[2], dims[1])), c[3], Pad(c[4], Rat(dims[2], dims[1]))>>
    ELSE IF dims[1] < dims[2]
    THEN <<Pad(c[1], Rat(dims[1], dims[2])), c[2], Pad(c[3], Rat(dims[1], dims[2])), c[4]>>
    ELSE c

\* lines 156-157, one row: coords *= img_input_dims + img_input_dims
ScaledRow(c, dims) ==
    <<RatMul(c[1], RatInt(dims[1])), RatMul(c[2], RatInt(dims[2])),
      RatMul(c[3], RatInt(dims[1])), RatMul(c[4], RatInt(dims[2]))>>

\* lines 124-159, for an array of rows of four columns
to_image_input_coordinates(coords_arg, img_dims_arg, relative_coord, centered_coords, input_dims, needs_padding_adaption, is_absolute) ==
    LET c1 == IF centered_coords
              THEN [k \in 1..Len(coords_arg) |-> CornerRow(coords_arg[k])]
              ELSE coords_arg
        c2 == IF is_absolute
              THEN [k \in 1..Len(c1) |-> RelativeRow(c1[k], img_dims_arg)]
              ELSE c1
        c3 == IF needs_padding_adaption /\ img_dims_arg # None
              THEN [k \in 1..Len(c2) |-> PaddedRow(c2[k], img_dims_arg)]
              ELSE c2
    IN  IF relative_coord \/ is_absolute
        THEN [k \in 1..Len(c3) |-> ScaledRow(c3[k], input_dims)]
        ELSE c3

\* line 304, one row: rois[:, 0:4] /= output_scale + output_scale
UnscaledRow(r, scale) == RelativeRow(SubSeq(r, 1, 4), scale) \o SubSeq(r, 5, Len(r))

\* lines 306-307, one row: the x columns shifted by 7/32 and scaled by 16/9
UnpaddedRow(r) ==
    [k \in 1..Len(r) |->
       IF k \in {1, 3} THEN RatMul(RatSub(r[k], Rat(7, 32)), Rat(16, 9)) ELSE r[k]]

\* lines 301-307: the array add_rois_to_img hands to points_to_xywh; [status, value]
add_rois_to_img(rois, remove_padding) ==
    IF Len(rois) = 0 THEN [status |-> "ok", value |-> rois]
    ELSE IF output_scale = None THEN [status |-> "NameError", value |-> None]
    ELSE LET r1 == [k \in 1..Len(rois) |-> UnscaledRow(rois[k], output_scale)]
             r2 == IF remove_padding THEN [k \in 1..Len(r1) |-> UnpaddedRow(r1[k])] ELSE r1
         IN  [status |-> "ok", value |-> r2]

(***************************************************************************)
(* Inputs                                                                  *)
(***************************************************************************)
\* a flat list cut into consecutive pieces of the given sizes
RECURSIVE Split(_, _)
Split(flat, sizes) ==
    IF Len(sizes) = 0 THEN <<>>
    ELSE <<SubSeq(flat, 1, Head(sizes))>>
         \o Split(SubSeq(flat, Head(sizes) + 1, Len(flat)), Tail(sizes))

\* per-image lists over S: at most MaxImages images holding at most MaxBoxes items in all
PerImageLists(S) ==
    UNION {{Split(flat, sizes) :
               sizes \in {z \in SeqsUpTo(0..MaxBoxes, MaxImages) : SumSeq(z) = Len(flat)}} :
           flat \in SeqsUpTo(S, MaxBoxes)}

\* ground-truth boxes: relative corner coordinates (in hundredths) and the original label
GtCoordPool == {<<10, 10, 30, 30>>, <<20, 0, 40, 20>>}
GtBoxPool == {c \o <<l>> : c \in GtCoordPool, l \in Labels}

\* regions: a raw score vector of the network (scores in halves) and the region's box
PredVectorPool ==
    {<<2, 0, 0, 0>>,     \* background only
     <<0, 2, 0, 1>>,     \* fruit, and apple below it
     <<0, 1, 1, 2>>,     \* apple scored above its parent fruit
     <<0, 0, 2, 2>>,     \* apple without its parent: decodes to no score at all
     <<1, 2, 1, 0>>}     \* background and fruit
RoiPool == {<<0, 0, 20, 20>>, <<10, 10, 30, 30>>}
RegionPool == {<<v, r>> : v \in PredVectorPool, r \in RoiPool}

\* the num_classes a caller can hand over: the class count, or one off
NumClassesArgs == {NC - 1, NC, NC + 1}

\* corner boxes with xmin <= xmax and ymin <= ymax, coordinates k / MaxCoord
CoordValues == {Rat(k, MaxCoord) : k \in 0..MaxCoord}
RatLeq(p, q) == p[1] * q[2] <= q[1] * p[2]
CornerBoxes ==
    {b \in [1..4 -> CoordValues] : RatLeq(b[1], b[3]) /\ RatLeq(b[2], b[4])}

\* (width, height) of the test images
ImgDimsPool == {<<16, 9>>, <<9, 16>>, <<4, 3>>, <<1, 1>>}

\* (width, height) of the detector's image input (line 236)
img_input_dims == <<1000, 1000>>

(***************************************************************************)
(* Initial states                                                          *)
(***************************************************************************)
IdleGT ==
    /\ HCH = SoundHCH
    /\ gtbs = <<>>
    /\ gt_pc = "off"
    /\ gt_status = None
    /\ all_gt_infos = None

IdlePred ==
    /\ outputs = <<>>
    /\ roiss = <<>>
    /\ num_classes = NC
    /\ pred_pc = "off"
    /\ pred_status = None
    /\ all_boxes = None

IdleAP ==
    /\ aps = None
    /\ ap_list = None
    /\ mean_ap = None
    /\ ap_pc = "off"

IdleCoord ==
    /\ coords = <<>>
    /\ orig_coords = <<>>
    /\ img_dims = None
    /\ output_scale = None
    /\ coord_pc = "off"
    /\ coord_status = None

InitGT ==
    /\ HCH \in [Labels -> TrainVectors]
    /\ gtbs \in PerImageLists(GtBoxPool)
    /\ gt_pc = "idle"
    /\ gt_status = None
    /\ all_gt_infos = None
    /\ IdlePred /\ IdleAP /\ IdleCoord

InitPred ==
    /\ \E regions \in PerImageLists(RegionPool) :
          /\ outputs = [i \in 1..Len(regions) |->
                          [k \in 1..Len(regions[i]) |-> regions[i][k][1]]]
          /\ roiss = [i \in 1..Len(regions) |->
                        [k \in 1..Len(regions[i]) |-> regions[i][k][2]]]
    /\ num_classes \in NumClassesArgs
    /\ pred_pc = "idle"
    /\ pred_status = None
    /\ all_boxes = None
    /\ IdleGT /\ IdleAP /\ IdleCoord

InitAP ==
    /\ aps \in [{classes[k] : k \in 2..NC} -> APValues]
    /\ ap_list = None
    /\ mean_ap = None
    /\ ap_pc = "idle"
    /\ IdleGT /\ IdlePred /\ IdleCoord

\* output_scale is a module global this file never assigns: None is the state after
\* importing the file, img_input_dims the state after a caller has set it
InitCoord ==
    /\ \E box \in CornerBoxes : coords = <<box>> /\ orig_coords = <<box>>
    /\ img_dims \in ImgDimsPool
    /\ output_scale \in {None, img_input_dims}
    /\ coord_pc = "corner"
    /\ coord_status = "ok"
    /\ IdleGT /\ IdlePred /\ IdleAP

(***************************************************************************)
(* Actions                                                                 *)
(***************************************************************************)
\* all_gt_infos = prepare_ground_truth_boxes(gtbs); the code works on copies of gtbs
PrepareGroundTruthBoxes ==
    /\ gt_pc = "idle"
    /\ LET r == prepare_ground_truth_boxes(gtbs)
       IN  /\ gt_status' = r.status
           /\ all_gt_infos' = r.value
    /\ gt_pc' = "done"
    /\ UNCHANGED <<HCH, gtbs, predVars, apVars, coordVars>>

\* all_boxes = prepare_predictions(outputs, roiss, num_classes)
PreparePredictions ==
    /\ pred_pc = "idle"
    /\ LET r == prepare_predictions(outputs, roiss, num_classes)
       IN  /\ pred_status' = r.status
           /\ all_boxes' = r.value
    /\ pred_pc' = "done"
    /\ UNCHANGED <<outputs, roiss, num_classes, gtVars, apVars, coordVars>>

\* lines 207-212 of eval_fast_rcnn_mAP
ReportMeanAP ==
    /\ ap_pc = "idle"
    /\ ap_list' = ApList(aps)
    /\ mean_ap' = NpNanMean(ApList(aps))
    /\ ap_pc' = "done"
    /\ UNCHANGED <<aps, gtVars, predVars, coordVars>>

\* coords = points_to_xywh(coords)
PointsToXywh ==
    /\ coord_pc = "corner"
    /\ coords' = points_to_xywh(coords)
    /\ coord_pc' = "xywh"
    /\ UNCHANGED <<orig_coords, img_dims, output_scale, coord_status, gtVars, predVars, apVars>>

\* coords = to_image_input_coordinates(coords, centered_coords=True)
CenteredToCorner ==
    /\ coord_pc = "xywh"
    /\ coords' = to_image_input_coordinates(coords, None, FALSE, TRUE, None, TRUE, FALSE)
    /\ coord_pc' = "restored"
    /\ UNCHANGED <<orig_coords, img_dims, output_scale, coord_status, gtVars, predVars, apVars>>

\* coords = to_image_input_coordinates(coords, img_dims, relative_coord=True,
\*                                     img_input_dims=img_input_dims)
RelativeToInput ==
    /\ coord_pc = "corner"
    /\ coords' = to_image_input_coordinates(coords, img_dims, TRUE, FALSE,
                                            img_input_dims, TRUE, FALSE)
    /\ coord_pc' = "input"
    /\ UNCHANGED <<orig_coords, img_dims, output_scale, coord_status, gtVars, predVars, apVars>>

\* add_rois_to_img(img, coords, cls_name, remove_padding=True), up to the drawing
AddRoisToImg ==
    /\ coord_pc = "input"
    /\ LET r == add_rois_to_img(coords, TRUE)
       IN  /\ coord_status' = r.status
           /\ coords' = IF r.status = "ok" THEN r.value ELSE coords
    /\ coord_pc' = "unpadded"
    /\ UNCHANGED <<orig_coords, img_dims, output_scale, gtVars, predVars, apVars>>

NextGT == PrepareGroundTruthBoxes
NextPred == PreparePredictions
NextAP == ReportMeanAP
NextCoord == PointsToXywh \/ CenteredToCorner \/ RelativeToInput \/ AddRoisToImg

SpecGT == InitGT /\ [][NextGT]_vars
SpecPred == InitPred /\ [][NextPred]_vars
SpecAP == InitAP /\ [][NextAP]_vars
SpecCoord == InitCoord /\ [][NextCoord]_vars

(***************************************************************************)
(* Properties of prepare_ground_truth_boxes                                *)
(***************************************************************************)
\* the (image, box) positions of the ground-truth input
GtPositions == {p \in (1..MaxImages) \X (1..MaxBoxes) :
                    p[1] <= Len(gtbs) /\ p[2] <= Len(gtbs[p[1]])}

\* the reduced hierarchy vector of a ground-truth box
GtReduced(gtb) == [k \in 1..NC |-> At(HCH[gtb[5]], RawIndexOf[k])]

\* the classes a box is expanded into: the non-zero, non-background entries
ExpandedSet(gtb) == {c \in 1..(NC - 1) : At(GtReduced(gtb), c) # 0}

\* the box's own original class is among the classes it is expanded into
OwnClassExpanded(gtb) == \E c \in ExpandedSet(gtb) : At(classes, c) = At(cls_map_0, gtb[5])

AllOwnClassesExpanded == \A p \in GtPositions : OwnClassExpanded(gtbs[p[1]][p[2]])

\* C1: the call returns only if every box's expanded set contains the box's own class,
\* and with a box whose own class is missing it ends in an assertion failure
C1_AssertionDecidesReturn ==
    gt_pc = "done" =>
        /\ gt_status = "returned" => AllOwnClassesExpanded
        /\ ~AllOwnClassesExpanded => gt_status = "AssertionError"

\* the part of C1 that holds: a result is returned only if every box's own class is
\* expanded, and the call ends in the assertion failure exactly when the first image
\* that raises holds a box whose own class is missing
ReturnImpliesOwnClasses ==
    gt_pc = "done" =>
        /\ gt_status = "returned" => AllOwnClassesExpanded
        /\ ~AllOwnClassesExpanded => gt_status \in {"AssertionError", "ValueError"}
        /\ gt_status = "ValueError" => \E i \in 1..Len(gtbs) : Len(gtbs[i]) = 0

\* C3: for every input whose boxes pass the assertion, images without boxes included,
\* every non-background class holds one record per image, the flags all False
C3_RecordPerImage ==
    (gt_pc = "done" /\ AllOwnClassesExpanded) =>
        /\ gt_status = "returned"
        /\ \A c \in 1..(NC - 1) :
              /\ Len(all_gt_infos[At(classes, c)]) = Len(gtbs)
              /\ \A i \in 1..Len(gtbs) :
                    LET rec == all_gt_infos[At(classes, c)][i]
                    IN  /\ Len(rec.difficult) = Len(rec.bbox)
                        /\ Len(rec.det) = Len(rec.bbox)
                        /\ \A k \in 1..Len(rec.bbox) : ~rec.difficult[k] /\ ~rec.det[k]

\* the boxes of one image that are active at class c, relabelled c, in box order
ExpectedGtBoxes(image_gtbs, c) ==
    LET hits == SelectSeq(image_gtbs, LAMBDA gtb : c \in ExpandedSet(gtb))
    IN  [k \in 1..Len(hits) |-> <<hits[k][1], hits[k][2], hits[k][3], hits[k][4], c>>]

\* C5: the record of image i for class c holds exactly the boxes of image i whose
\* reduced vector is non-zero at c, with their coordinates and label c, in box order;
\* so each box yields one derived box per class of its expanded set and no other
C5_DerivedBoxes ==
    (gt_pc = "done" /\ gt_status = "returned") =>
        /\ \A c \in 1..(NC - 1) : \A i \in 1..Len(gtbs) :
               all_gt_infos[At(classes, c)][i].bbox = ExpectedGtBoxes(gtbs[i], c)
        /\ all_gt_infos[At(classes, 0)] = <<>>
        /\ \A i \in 1..Len(gtbs) :
               SumSeq([c \in 1..(NC - 1) |-> Len(all_gt_infos[At(classes, c)][i].bbox)])
                 = SumSeq([k \in 1..Len(gtbs[i]) |-> Cardinality(ExpandedSet(gtbs[i][k]))])

\* C5 witness: one image, one box labelled apple, hierarchy apple -> {apple, fruit}:
\* two derived boxes, one fruit (class 1) and one apple (class 2), same coordinates
C5_Witness ==
    /\ gt_pc = "done" /\ gt_status = "returned"
    /\ HCH = SoundHCH
    /\ gtbs = <<(<<(<<10, 10, 30, 30, 1>>)>>)>>
    /\ all_gt_infos["fruit"][1].bbox = <<(<<10, 10, 30, 30, 1>>)>>
    /\ all_gt_infos["apple"][1].bbox = <<(<<10, 10, 30, 30, 2>>)>>

(***************************************************************************)
(* Properties of prepare_predictions                                       *)
(***************************************************************************)
RegionPositions == {p \in (1..MaxImages) \X (1..MaxBoxes) :
                        p[1] <= Len(outputs) /\ p[2] <= Len(outputs[p[1]])}

\* the top-down decoded and reduced vector of a region
DecodedReduced(pred_vector) ==
    [k \in 1..NC |-> At(top_down_eval(pred_vector), RawIndexOf[k])]

AllLengthsAgree ==
    \A p \in RegionPositions : Len(DecodedReduced(outputs[p[1]][p[2]])) = num_classes

\* C2: a result is returned only if every reduced vector has length num_classes, and
\* with a reduced vector of another length the run ends in an assertion failure
C2_LengthDecidesReturn ==
    pred_pc = "done" =>
        /\ pred_status = "returned" => AllLengthsAgree
        /\ ~AllLengthsAgree => pred_status = "AssertionError"

\* the part of C2 that holds: a result is returned only if every reduced vector has
\* the length num_classes; otherwise the call raises, and a ValueError only for an
\* image without a prediction
ReturnImpliesLengthsAgree ==
    pred_pc = "done" =>
        /\ pred_status = "returned" => AllLengthsAgree
        /\ ~AllLengthsAgree => pred_status \in {"AssertionError", "ValueError"}
        /\ (pred_status = "ValueError" /\ ~AllLengthsAgree) =>
              \E i \in 1..Len(outputs) : Len(outputs[i]) = 0

\* C4: for every input whose vectors have the length num_classes, images without
\* regions or without a non-zero score included, every non-background class holds
\* for every image an array of rows of 5 values
C4_ArrayPerImage ==
    (pred_pc = "done" /\ num_classes = NC) =>
        /\ pred_status = "returned"
        /\ \A c \in 1..(num_classes - 1) :
              /\ Len(At(all_boxes, c)) = Len(outputs)
              /\ \A i \in 1..Len(outputs) :
                    \A k \in 1..Len(At(all_boxes, c)[i]) : Len(At(all_boxes, c)[i][k]) = 5

\* the rows of image i for class c: region box and score of the regions of the image
\* whose decoded and reduced vector is non-zero at c, in region order
ExpectedRows(i, c) ==
    LET hits == SelectSeq(Range(1, Len(outputs[i]) + 1),
                          LAMBDA k : At(DecodedReduced(outputs[i][k]), c) # 0)
    IN  [j \in 1..Len(hits) |->
           roiss[i][hits[j]] \o <<At(DecodedReduced(outputs[i][hits[j]]), c)>>]

\* C6: all_boxes[c][i] holds exactly one row (region box, score) per region of image i
\* whose decoded and reduced vector is non-zero at c, in region order; the background
\* entry produces no detection
C6_Detections ==
    (pred_pc = "done" /\ pred_status = "returned") =>
        /\ Len(all_boxes) = num_classes
        /\ \A c \in 1..(num_classes - 1) : \A i \in 1..Len(outputs) :
               At(all_boxes, c)[i] = ExpectedRows(i, c)
        /\ num_classes > 0 => \A i \in 1..Len(outputs) : At(all_boxes, 0)[i] = <<>>

\* C6 witness: a returned result for an image with a region of background mass only,
\* which adds no row, and a region with detections
C6_Witness ==
    /\ pred_pc = "done" /\ pred_status = "returned"
    /\ Len(outputs) = 1
    /\ outputs[1] = <<(<<2, 0, 0, 0>>), (<<0, 2, 0, 1>>)>>
    /\ \A c \in 1..(NC - 1) : Len(At(all_boxes, c)[1]) = 1

(***************************************************************************)
(* Properties of eval_fast_rcnn_mAP                                        *)
(***************************************************************************)
\* the non-background classes (positions) whose AP is not NaN
DefinedClasses == {k \in 2..NC : aps[classes[k]] # NaN}

RECURSIVE SumOfAps(_)
SumOfAps(S) ==
    IF S = {} THEN RatInt(0)
    ELSE LET k == CHOOSE x \in S : TRUE
         IN  RatAdd(aps[classes[k]], SumOfAps(S \ {k}))

\* C7: the mean AP is the mean over exactly the non-background classes whose AP is
\* not NaN; the background class is not in the averaged list
C7_MeanOverDefined ==
    ap_pc = "done" =>
        /\ Len(ap_list) = NC - 1
        /\ \A k \in 2..NC : ap_list[k - 1] = aps[classes[k]]
        /\ IF DefinedClasses = {} THEN mean_ap = NaN
           ELSE /\ mean_ap # NaN
                /\ RatMul(mean_ap, RatInt(Cardinality(DefinedClasses)))
                     = SumOfAps(DefinedClasses)

\* C7 witness: a reported mean with one class of AP NaN and one class of AP 1/2
C7_Witness ==
    /\ ap_pc = "done"
    /\ aps["fruit"] = NaN
    /\ aps["apple"] = Rat(1, 2)
    /\ mean_ap = Rat(1, 2)

(***************************************************************************)
(* Properties of the coordinate helpers                                    *)
(***************************************************************************)
\* C8: padding (to_image_input_coordinates) and then its inverse (add_rois_to_img,
\* dividing by the input resolution) reproduce the relative coordinates of a
\* non-square image
C8_PaddingRoundTrip ==
    (coord_pc = "unpadded" /\ img_dims[1] # img_dims[2] /\ output_scale = img_input_dims) =>
        (coord_status = "ok" /\ coords = orig_coords)

\* C10: corner form -> centre form (points_to_xywh) -> corner form (centered_coords
\* branch) reproduces the four coordinates
C10_CornerRoundTrip == coord_pc = "restored" => coords = orig_coords

\* C10 witness: a box of positive width and height went through both conversions
C10_Witness ==
    /\ coord_pc = "restored"
    /\ orig_coords[1][1] # orig_coords[1][3]
    /\ orig_coords[1][2] # orig_coords[1][4]

====
